---- MODULE Spec2Model ----
(***************************************************************************)
(* Model of the myscs version-control engine: staging.py (stage_file) and  *)
(* commit_change.py (commit, get_current_commit_hash, view_commit_history, *)
(* merge, get_commit_hash_for_branch, perform_merge, get_current_branch).  *)
(*                                                                         *)
(* Durable state is the working directory and the files under .myscs:      *)
(* index, objects/<digest>, HEAD and refs/heads/<branch>.  Text files are  *)
(* sequences of lines.  A line of the index is <<path, digest>>; a line of *)
(* HEAD is either RefLine(b), the text "ref: refs/heads/<b>", or a digest. *)
(* A SHA-1 hex digest of x is the tagged value <<"sha1", x>>: distinct     *)
(* inputs give distinct digests (no collisions), and a digest is never     *)
(* equal to a ref line or to an empty string.                              *)
(*                                                                         *)
(* lastOp and result are the operation run last and what it reported,      *)
(* shown is the table view_commit_history prints, target is the branch     *)
(* named in the message merge prints, current_commit_hash is the loop      *)
(* variable of view_commit_history while its loop runs, and log lists the  *)
(* digests that successful commit() calls reported, oldest first.          *)
(***************************************************************************)
EXTENDS Integers, Sequences, FiniteSets, TLC

VARIABLES files, index_exists, index, head_exists, HEAD, objects, refs,
          lastOp, result, shown, target, current_commit_hash, log

vars == <<files, index_exists, index, head_exists, HEAD, objects, refs,
          lastOp, result, shown, target, current_commit_hash, log>>

durable == <<index_exists, index, head_exists, HEAD, objects, refs>>

\* ---------------------------------------------------------------- bounds
MaxIndex == 2       \* most lines the index grows to
MaxObjects == 2     \* most commit objects the store grows to
MaxRows == 3        \* rows of the history table that are recorded

Paths == {"a", "b"}
Contents == {1, 2}  \* the contents a working-directory file can have
Times == {0}        \* the values time.time() returns
Messages == {"m"}
Branches == {"main", "dev", "feat"}
Absent == 0         \* a path with no file in the working directory
None == <<>>        \* Python None / JSON null

\* ------------------------------------------------------- pure functions
\* hashlib.sha1(x).hexdigest()
Sha1(x) == <<"sha1", x>>

\* the text "ref: refs/heads/<b>"
RefLine(b) == <<"ref", b>>

\* len(text) == 40 for a one-line text: true of a hex digest only
IsHash(line) == line[1] = "sha1"

\* json.dumps(commit_data, indent=4): the fields in insertion order
JsonDumps(data) ==
    << <<"commit_message", data.commit_message>>,
       <<"timestamp", data.timestamp>>,
       <<"parent_commit", data.parent_commit>>,
       <<"files", data.files>> >>

\* json.load(commit_file)
JsonLoad(str) ==
    [commit_message |-> str[1][2], timestamp |-> str[2][2],
     parent_commit |-> str[3][2], files |-> str[4][2]]

\* get_current_commit_hash(): the parent the next commit records
get_current_commit_hash_TipOnThirdLine ==
    IF ~head_exists THEN None
    ELSE IF \E i \in 1..Len(HEAD) : HEAD[i] = RefLine("main")
         THEN IF Len(HEAD) > 2 THEN HEAD[2] ELSE None
    ELSE IF Len(HEAD) = 1 /\ IsHash(HEAD[1]) THEN HEAD[1]
    ELSE None
get_current_commit_hash ==
    IF ~head_exists THEN None
    ELSE IF \E i \in 1..Len(HEAD) : HEAD[i] = RefLine("main")
         THEN IF Len(HEAD) > 1 THEN HEAD[2] ELSE None
    ELSE IF Len(HEAD) = 1 /\ IsHash(HEAD[1]) THEN HEAD[1]
    ELSE None

\* get_commit_hash_for_branch(branch_name)
get_commit_hash_for_branch_FallsBackToHead(b) ==
    IF b \in DOMAIN refs THEN refs[b] ELSE get_current_commit_hash
get_commit_hash_for_branch(b) ==
    IF b \in DOMAIN refs THEN refs[b] ELSE None

\* get_current_branch(): content.split('/')[-1] keeps every line after the
\* ref line, so the value is the branch name followed by the rest of HEAD
get_current_branch ==
    IF head_exists /\ Len(HEAD) > 0 /\ HEAD[1][1] = "ref"
    THEN <<HEAD[1][2]>> \o Tail(HEAD)
    ELSE None

\* perform_merge(current_branch, target_branch)
perform_merge(current_branch, target_branch) == TRUE

\* commit(), step 3: the first staged entry that fails validation decides
RECURSIVE Validate_NoHashCheck(_)
Validate_NoHashCheck(staged) ==
    IF staged = <<>> THEN "ok"
    ELSE IF files[Head(staged)[1]] = Absent THEN "StagedFileMissing"
    ELSE Validate_NoHashCheck(Tail(staged))
RECURSIVE Validate(_)
Validate(staged) ==
    IF staged = <<>> THEN "ok"
    ELSE LET file_path == Head(staged)[1]
             file_hash == Head(staged)[2]
         IN IF files[file_path] = Absent THEN "StagedFileMissing"
            ELSE IF Sha1(files[file_path]) # file_hash THEN "StagedFileModified"
            ELSE Validate(Tail(staged))

\* view_commit_history(), the while loop run to its end: the rows shown
\* from hash h on.  fuel is the number of rows a walk without a repeated
\* commit can show; History_Step below is the loop one pass at a time
RECURSIVE Walk(_, _)
Walk(h, fuel) ==
    IF h = None \/ fuel = 0 THEN <<>>
    ELSE IF h \notin DOMAIN objects THEN << <<"not found", h>> >>
    ELSE <<h>> \o Walk(JsonLoad(objects[h]).parent_commit, fuel - 1)

\* ---------------------------------------------------------------- Init
\* a root commit made earlier, for the initial states that have history
C0 == JsonDumps([commit_message |-> "m", timestamp |-> 0,
                 parent_commit |-> None, files |-> << <<"a", Sha1(1)>> >>])
H0 == Sha1(C0)

\* later commits of a repository with three branches: main and dev each
\* add b on top of C0 with different content, feat continues main
Cmain == JsonDumps([commit_message |-> "m", timestamp |-> 0,
                    parent_commit |-> H0, files |-> << <<"b", Sha1(1)>> >>])
Hmain == Sha1(Cmain)
Cdev == JsonDumps([commit_message |-> "m", timestamp |-> 0,
                   parent_commit |-> H0, files |-> << <<"b", Sha1(2)>> >>])
Hdev == Sha1(Cdev)
Cfeat == JsonDumps([commit_message |-> "m", timestamp |-> 0,
                    parent_commit |-> Hmain, files |-> << <<"a", Sha1(2)>> >>])
Hfeat == Sha1(Cfeat)

InitRepo ==
    \/ /\ head_exists = FALSE /\ HEAD = <<>>            \* before any commit
       /\ objects = <<>> /\ refs = <<>>
    \/ /\ head_exists = TRUE /\ HEAD = <<RefLine("main")>>   \* no tip yet
       /\ objects = <<>> /\ refs = <<>>
    \/ /\ head_exists = TRUE /\ HEAD = <<RefLine("dev"), H0>>
       /\ objects = (H0 :> C0) /\ refs = ("main" :> H0 @@ "dev" :> H0)
    \/ /\ head_exists = TRUE /\ HEAD = <<H0>>                \* detached
       /\ objects = (H0 :> C0) /\ refs = ("main" :> H0)
    \/ /\ head_exists = TRUE /\ HEAD = <<RefLine("main"), Hmain>>
       /\ objects = (H0 :> C0 @@ Hmain :> Cmain @@ Hdev :> Cdev @@ Hfeat :> Cfeat)
       /\ refs = ("main" :> Hmain @@ "dev" :> Hdev @@ "feat" :> Hfeat)

Init ==
    /\ files = [p \in Paths |-> Absent]
    /\ index_exists \in BOOLEAN
    /\ index = <<>>
    /\ InitRepo
    /\ lastOp = "init"
    /\ result = "none"
    /\ shown = <<>>
    /\ target = ""
    /\ current_commit_hash = None
    /\ log = <<>>

\* ------------------------------------------------------------- actions
\* the user's editor: create or overwrite a working-directory file
WriteFile(p, c) ==
    /\ files[p] # c
    /\ files' = [files EXCEPT ![p] = c]
    /\ lastOp' = "write" /\ result' = "none" /\ shown' = <<>>
    /\ target' = "" /\ current_commit_hash' = None
    /\ UNCHANGED <<durable, log>>

\* the user deletes a working-directory file
DeleteFile(p) ==
    /\ files[p] # Absent
    /\ files' = [files EXCEPT ![p] = Absent]
    /\ lastOp' = "delete" /\ result' = "none" /\ shown' = <<>>
    /\ target' = "" /\ current_commit_hash' = None
    /\ UNCHANGED <<durable, log>>

\* stage_file(file_path)
stage_file(file_path) ==
    /\ lastOp' = "stage" /\ shown' = <<>>
    /\ target' = "" /\ current_commit_hash' = None
    /\ UNCHANGED log
    /\ IF files[file_path] = Absent
       THEN /\ result' = "FileNotFound"
            /\ UNCHANGED <<files, durable>>
       ELSE /\ Len(index) < MaxIndex
            /\ index_exists' = TRUE
            /\ index' = Append(index, <<file_path, Sha1(files[file_path])>>)
            /\ result' = "staged"
            /\ UNCHANGED <<files, head_exists, HEAD, objects, refs>>

\* commit(), step 1 guard: the index file is missing or has size 0
NothingStaged_OnlyMissing == ~index_exists
NothingStaged == ~index_exists \/ index = <<>>

\* commit(), step 2: the (path, digest) pairs read from the index
staged_files == index

\* commit(), step 4: the commit object data
commit_data_DropsFirstFile(commit_message, clock) ==
    [commit_message |-> commit_message,
     timestamp |-> clock,
     parent_commit |-> get_current_commit_hash,
     files |-> Tail(staged_files)]
commit_data(commit_message, clock) ==
    [commit_message |-> commit_message,
     timestamp |-> clock,
     parent_commit |-> get_current_commit_hash,
     files |-> staged_files]

\* commit(), step 6: open(".myscs/objects/<commit_hash>", "w") and write
write_object_Truncating(commit_hash, commit_data_str) ==
    [d \in DOMAIN objects \cup {commit_hash} |->
        IF d = commit_hash THEN commit_data_str ELSE <<>>]
write_object_NotFlushed(commit_hash, commit_data_str) == objects
write_object(commit_hash, commit_data_str) ==
    [d \in DOMAIN objects \cup {commit_hash} |->
        IF d = commit_hash THEN commit_data_str ELSE objects[d]]

\* commit(), step 7: the text written to HEAD
write_head(commit_hash) == <<RefLine("main"), commit_hash>>

\* commit(commit_message); clock is the value of time.time(), fail names
\* the write that raises ("none", "object" or "head")
commit(commit_message, clock, fail) ==
    /\ lastOp' = "commit" /\ shown' = <<>>
    /\ target' = "" /\ current_commit_hash' = None
    /\ IF NothingStaged
       THEN /\ result' = "NothingToCommit"
            /\ UNCHANGED <<files, durable, log>>
       ELSE IF Validate(staged_files) # "ok"
       THEN /\ result' = Validate(staged_files)
            /\ UNCHANGED <<files, durable, log>>
       ELSE LET commit_data_str == JsonDumps(commit_data(commit_message, clock))
                commit_hash == Sha1(commit_data_str)
            IN IF fail = "object"
               THEN /\ result' = "ErrorSavingObject"
                    /\ UNCHANGED <<files, durable, log>>
               ELSE /\ Cardinality(DOMAIN objects \cup {commit_hash}) <= MaxObjects
                    /\ objects' = write_object(commit_hash, commit_data_str)
                    /\ IF fail = "head"
                       THEN /\ result' = "ErrorUpdatingHead"
                            /\ UNCHANGED <<head_exists, HEAD, log>>
                       ELSE /\ head_exists' = TRUE
                            /\ HEAD' = write_head(commit_hash)
                            /\ result' = "success"
                            /\ log' = Append(log, commit_hash)
                    /\ UNCHANGED <<files, index_exists, index, refs>>

\* view_commit_history()
view_commit_history ==
    /\ lastOp' = "history"
    /\ IF ~head_exists
       THEN result' = "NoCommits" /\ shown' = <<>>
       ELSE IF ~(\E i \in 1..Len(HEAD) : HEAD[i] = RefLine("main"))
       THEN result' = "InvalidHead" /\ shown' = <<>>
       ELSE /\ result' = "table"
            /\ shown' = Walk(HEAD[Len(HEAD)], Cardinality(DOMAIN objects) + 1)
    /\ target' = "" /\ current_commit_hash' = None
    /\ UNCHANGED <<files, durable, log>>

\* merge(target_branch)
merge_FastForwarding(target_branch) ==
    /\ lastOp' = "merge" /\ shown' = <<>>
    /\ target' = target_branch /\ current_commit_hash' = None
    /\ IF get_current_branch = <<target_branch>>
       THEN result' = "AlreadyOnTarget" /\ UNCHANGED <<head_exists, HEAD>>
       ELSE IF get_commit_hash_for_branch(target_branch) = None
       THEN result' = "UnknownBranch" /\ UNCHANGED <<head_exists, HEAD>>
       ELSE /\ result' = "MergeSuccessful"
            /\ head_exists' = TRUE
            /\ HEAD' = write_head(get_commit_hash_for_branch(target_branch))
    /\ UNCHANGED <<files, index_exists, index, objects, refs, log>>
merge(target_branch) ==
    /\ lastOp' = "merge" /\ shown' = <<>>
    /\ target' = target_branch /\ current_commit_hash' = None
    /\ IF get_current_branch = <<target_branch>>
       THEN result' = "AlreadyOnTarget"
       ELSE IF get_commit_hash_for_branch(target_branch) = None
       THEN result' = "UnknownBranch"
       ELSE IF perform_merge(get_current_branch, target_branch)
       THEN result' = "MergeSuccessful"
       ELSE result' = "MergeConflict"
    /\ UNCHANGED <<files, durable, log>>

Next ==
    \/ \E p \in Paths, c \in Contents : WriteFile(p, c)
    \/ \E p \in Paths : DeleteFile(p)
    \/ \E p \in Paths : stage_file(p)
    \/ \E m \in Messages, t \in Times, f \in {"none", "object", "head"} :
          commit(m, t, f)
    \/ view_commit_history
    \/ \E b \in Branches : merge(b)

Spec == Init /\ [][Next]_vars

\* view_commit_history() up to its loop: HEAD is read and the loop
\* variable set; result "walking" marks the loop as running
view_commit_history_begin ==
    /\ result # "walking"
    /\ lastOp' = "history" /\ target' = "" /\ shown' = <<>>
    /\ IF ~head_exists
       THEN result' = "NoCommits" /\ current_commit_hash' = None
       ELSE IF ~(\E i \in 1..Len(HEAD) : HEAD[i] = RefLine("main"))
       THEN result' = "InvalidHead" /\ current_commit_hash' = None
       ELSE /\ result' = "walking"
            /\ current_commit_hash' = HEAD[Len(HEAD)]
    /\ UNCHANGED <<files, durable, log>>

\* table.add_row: the first MaxRows rows are recorded
add_row(row) == IF Len(shown) < MaxRows THEN Append(shown, row) ELSE shown

\* view_commit_history(), one pass of the while loop, or leaving it and
\* printing the table
view_commit_history_loop ==
    /\ result = "walking"
    /\ IF current_commit_hash = None
       THEN /\ result' = "table"
            /\ UNCHANGED <<shown, current_commit_hash>>
       ELSE IF current_commit_hash \notin DOMAIN objects
       THEN /\ shown' = add_row(<<"not found", current_commit_hash>>)
            /\ result' = "table"
            /\ current_commit_hash' = None
       ELSE /\ shown' = add_row(current_commit_hash)
            /\ current_commit_hash' =
                  JsonLoad(objects[current_commit_hash]).parent_commit
            /\ UNCHANGED result
    /\ UNCHANGED <<files, durable, log, lastOp, target>>

\* an object store edited outside the program: the file named H0 now
\* names Hmain as its parent, and Hmain's parent is H0
Ccycle == JsonDumps([commit_message |-> "m", timestamp |-> 0,
                     parent_commit |-> Hmain, files |-> << <<"a", Sha1(1)>> >>])

InitCorrupt ==
    /\ head_exists = TRUE /\ HEAD = <<RefLine("main"), Hmain>>
    /\ objects = (H0 :> Ccycle @@ Hmain :> Cmain)
    /\ refs = ("main" :> Hmain)

InitWalk ==
    /\ files = [p \in Paths |-> Absent]
    /\ index_exists \in BOOLEAN
    /\ index = <<>>
    /\ (InitRepo \/ InitCorrupt)
    /\ lastOp = "init"
    /\ result = "none"
    /\ shown = <<>>
    /\ target = ""
    /\ current_commit_hash = None
    /\ log = <<>>

\* the program with the history loop run one pass at a time; no other
\* operation runs while the loop does (single process)
NextWalk ==
    \/ \E p \in Paths, c \in Contents : result # "walking" /\ WriteFile(p, c)
    \/ \E p \in Paths : result # "walking" /\ DeleteFile(p)
    \/ \E p \in Paths : result # "walking" /\ stage_file(p)
    \/ \E m \in Messages, t \in Times, f \in {"none", "object", "head"} :
          result # "walking" /\ commit(m, t, f)
    \/ \E b \in Branches : result # "walking" /\ merge(b)
    \/ view_commit_history_begin
    \/ view_commit_history_loop

\* a loop that has started keeps running: its pass is taken whenever it
\* stays enabled
SpecWalk == InitWalk /\ [][NextWalk]_vars /\ WF_vars(view_commit_history_loop)

\* a repository in which no commit has been made yet
InitEmpty == Init /\ DOMAIN objects = {}

SpecEmpty == InitEmpty /\ [][Next]_vars


\* ------------------------------------------------------------ properties
\* a step of commit() that reported ok
CommitSucceeds == lastOp' = "commit" /\ result' = "success"

\* the digest HEAD carries after a successful commit
NewCommit == HEAD'[2]

\* HEAD names a branch
Symbolic == head_exists /\ Len(HEAD) > 0 /\ HEAD[1][1] = "ref"

\* HEAD is a bare digest
Detached == head_exists /\ Len(HEAD) = 1 /\ IsHash(HEAD[1])

\* staged entry i names an existing file whose content no longer has the
\* digest recorded at stage time
Stale(i) ==
    /\ files[index[i][1]] # Absent
    /\ Sha1(files[index[i][1]]) # index[i][2]

\* staged entry i names a file that no longer exists
Missing(i) == files[index[i][1]] = Absent

\* C1: after every successful commit the staging index is empty.
C1_IndexClearedByCommit ==
    (lastOp = "commit" /\ result = "success") => index = <<>>

\* C2: a successful commit keeps HEAD on the branch it named and moves
\* that branch's ref to the new digest, keeps a detached HEAD detached at
\* the new digest, and changes no other branch's tip.
C2_CommitAdvancesCurrentBranch ==
    [][CommitSucceeds =>
        \E d \in DOMAIN objects' :
            /\ Symbolic =>
                 /\ HEAD'[1] = HEAD[1]
                 /\ HEAD[1][2] \in DOMAIN refs'
                 /\ refs'[HEAD[1][2]] = d
                 /\ \A b \in DOMAIN refs \ {HEAD[1][2]} :
                       b \in DOMAIN refs' /\ refs'[b] = refs[b]
            /\ Detached => HEAD' = <<d>> /\ refs' = refs]_vars

\* C3: the staging index never holds two entries for the same path.
C3_UniquePaths ==
    \A i, j \in 1..Len(index) : index[i][1] = index[j][1] => i = j

\* C4 as stated: a commit run while some staged file's content differs
\* from its recorded digest reports 'staged file modified' and changes
\* nothing durable.
C4_ModifiedAlwaysReported ==
    [][(lastOp' = "commit" /\ \E i \in 1..Len(index) : Stale(i)) =>
         (result' = "StagedFileModified" /\ UNCHANGED durable)]_vars

\* C4 amended: such a commit always fails and changes nothing durable; it
\* reports 'staged file modified' when no entry before the first stale
\* entry names a missing file, and 'staged file missing' otherwise.
C4_StaleEntryFailsCommit ==
    [][(lastOp' = "commit" /\ \E i \in 1..Len(index) : Stale(i)) =>
         /\ UNCHANGED durable
         /\ LET first == CHOOSE i \in 1..Len(index) :
                            Stale(i) /\ \A k \in 1..(i - 1) : ~Stale(k)
            IN result' = IF \E k \in 1..(first - 1) : Missing(k)
                         THEN "StagedFileMissing"
                         ELSE "StagedFileModified"]_vars

\* a commit refused as modified although an entry after the stale one
\* names a missing file
C4_Witness ==
    /\ lastOp = "commit" /\ result = "StagedFileModified"
    /\ \E i, k \in 1..Len(index) : i < k /\ Stale(i) /\ Missing(k)

\* C5: once a file that was modified after staging has been staged again,
\* so that the latest entry of every staged path matches the file's
\* content, the next commit succeeds unless a write fails.
C5_RestagingRecovers ==
    [][(/\ lastOp = "stage" /\ result = "staged"
        /\ lastOp' = "commit"
        /\ result' \notin {"ErrorSavingObject", "ErrorUpdatingHead"}
        /\ \A i \in 1..Len(index) :
              (\A k \in (i + 1)..Len(index) : index[k][1] # index[i][1])
                 => ~Stale(i) /\ ~Missing(i))
       => result' = "success"]_vars

\* C6: a commit run while the index is missing or empty reports 'nothing
\* to commit' and leaves the object store, HEAD, the refs and the index
\* as they were.
C6_EmptyIndexCommit ==
    [][(lastOp' = "commit" /\ (~index_exists \/ index = <<>>)) =>
         (result' = "NothingToCommit" /\ UNCHANGED durable)]_vars

\* nothing to commit reported for a missing or zero-size index in a
\* repository whose store already holds a commit
C6_Witness ==
    /\ lastOp = "commit" /\ result = "NothingToCommit"
    /\ index = <<>> /\ DOMAIN objects # {}

\* C7: a commit that fails, at whatever step, leaves the object store,
\* HEAD, the refs and the index as they were.
C7_FailedCommitChangesNothing ==
    [][(lastOp' = "commit" /\ result' # "success") => UNCHANGED durable]_vars

\* C8: the object made by a successful commit lists every staged path with
\* the digest recorded for it at stage time, which is the digest of the
\* file's content, and lists no path that is not staged.
C8_SnapshotIsIndex ==
    [][CommitSucceeds =>
        /\ NewCommit \in DOMAIN objects'
        /\ LET listed == JsonLoad(objects'[NewCommit]).files
           IN /\ \A i \in 1..Len(index) :
                    /\ \E j \in 1..Len(listed) : listed[j] = index[i]
                    /\ index[i][2] = Sha1(files[index[i][1]])
              /\ \A j \in 1..Len(listed) :
                    \E i \in 1..Len(index) : listed[j][1] = index[i][1]]_vars

\* a successful commit of two different staged paths
C8_Witness ==
    /\ lastOp = "commit" /\ result = "success"
    /\ Len(index) = 2 /\ index[1][1] # index[2][1]
    /\ JsonLoad(objects[HEAD[2]]).files = index

\* C9: the parent recorded in a new commit is the commit HEAD resolved to
\* just before (the tip for a symbolic HEAD, the digest for a detached
\* one), and is null exactly when HEAD held no commit.
C9_ParentIsPreviousHead ==
    [][CommitSucceeds =>
        /\ NewCommit \in DOMAIN objects'
        /\ JsonLoad(objects'[NewCommit]).parent_commit =
              IF Symbolic /\ Len(HEAD) > 1 THEN HEAD[2]
              ELSE IF Detached THEN HEAD[1]
              ELSE None]_vars

\* C10: an object in the store stays in the store with the same content.
C10_ObjectsImmutable ==
    [][\A d \in DOMAIN objects :
          d \in DOMAIN objects' /\ objects'[d] = objects[d]]_vars

\* a store of two commits reached by committing on top of the first, then
\* read by history
C10_Witness ==
    /\ Cardinality(DOMAIN objects) >= 2
    /\ lastOp = "history" /\ Len(shown) >= 2

\* the parent recorded in stored commit h
ParentOf(h) == JsonLoad(objects[h]).parent_commit

\* commit a is commit d or is reached from d along parent links
RECURSIVE ReachesIn(_, _, _)
ReachesIn(a, d, n) ==
    /\ d \in DOMAIN objects
    /\ \/ d = a
       \/ n > 0 /\ ReachesIn(a, ParentOf(d), n - 1)
Reaches(a, d) == ReachesIn(a, d, Cardinality(DOMAIN objects))

\* the digest of path x in the snapshot of commit h: the entry of the
\* nearest commit on the parent chain that lists x, None when none does
RECURSIVE DigestIn(_, _, _)
DigestIn(x, h, n) ==
    IF h \notin DOMAIN objects \/ n = 0 THEN None
    ELSE LET listed == JsonLoad(objects[h]).files
             hits == {i \in 1..Len(listed) : listed[i][1] = x}
         IN IF hits # {}
            THEN listed[CHOOSE i \in hits : \A k \in hits : k <= i][2]
            ELSE DigestIn(x, ParentOf(h), n - 1)
DigestAt(x, h) == DigestIn(x, h, Cardinality(DOMAIN objects))

\* the most recent commit reached from both c1 and c2
IsBase(base, c1, c2) ==
    /\ Reaches(base, c1) /\ Reaches(base, c2)
    /\ \A c \in DOMAIN objects :
          (Reaches(c, c1) /\ Reaches(c, c2)) => Reaches(c, base)

\* both c1 and c2 changed path x since their common base, to different
\* digests
Conflicting(x, c1, c2) ==
    \E base \in DOMAIN objects :
        /\ IsBase(base, c1, c2)
        /\ base # c1 /\ base # c2
        /\ DigestAt(x, c1) # DigestAt(x, base)
        /\ DigestAt(x, c2) # DigestAt(x, base)
        /\ DigestAt(x, c1) # DigestAt(x, c2)

\* the branch a symbolic HEAD names
CurrentBranch == HEAD[1][2]

\* C11: merging a target whose tip descends from the current branch's
\* tip moves the current branch's tip to the target's tip and adds no
\* object to the store.
C11_FastForwardAdvances ==
    [][(/\ lastOp' = "merge" /\ Symbolic
        /\ CurrentBranch \in DOMAIN refs /\ target' \in DOMAIN refs
        /\ refs[CurrentBranch] # refs[target']
        /\ Reaches(refs[CurrentBranch], refs[target']))
       => (/\ CurrentBranch \in DOMAIN refs'
           /\ refs'[CurrentBranch] = refs[target']
           /\ objects' = objects)]_vars

\* C12: merging a target that changed a path the current branch also
\* changed since the common base, to a different digest, reports a
\* conflict, writes no commit and moves neither tip.
C12_ConflictReported ==
    [][(/\ lastOp' = "merge" /\ Symbolic
        /\ CurrentBranch \in DOMAIN refs /\ target' \in DOMAIN refs
        /\ \E x \in Paths :
              Conflicting(x, refs[CurrentBranch], refs[target']))
       => (/\ result' = "MergeConflict"
           /\ objects' = objects /\ refs' = refs /\ HEAD' = HEAD)]_vars

\* C13: merging the branch a symbolic HEAD names is reported as already
\* on that branch.
C13_SameBranchIsNoOp ==
    [][(lastOp' = "merge" /\ Symbolic /\ target' = CurrentBranch)
       => result' = "AlreadyOnTarget"]_vars

\* C14 as stated: merging a target that has no ref is reported as an
\* unknown branch and changes nothing durable.
C14_UnknownBranchAlwaysReported ==
    [][(lastOp' = "merge" /\ target' \notin DOMAIN refs)
       => (result' = "UnknownBranch" /\ UNCHANGED durable)]_vars

\* C14 amended: merging a target that has no ref changes nothing durable
\* and is reported as an unknown branch, except that it is reported as
\* already on the target when HEAD is the ref line of the target alone.
C14_UnknownBranchNeverMerged ==
    [][(lastOp' = "merge" /\ target' \notin DOMAIN refs)
       => (/\ UNCHANGED durable
           /\ result' = IF head_exists /\ HEAD = <<RefLine(target')>>
                        THEN "AlreadyOnTarget"
                        ELSE "UnknownBranch")]_vars

\* an unknown branch reported while HEAD carries a commit
C14_Witness ==
    /\ lastOp = "merge" /\ result = "UnknownBranch"
    /\ target \notin DOMAIN refs
    /\ get_current_commit_hash # None

C17_MissingReportedFirst ==
    [][(/\ lastOp' = "commit"
        /\ \E i \in 1..Len(index) : Missing(i)
        /\ \E j \in 1..Len(index) : Stale(j))
       => result' = "StagedFileMissing"]_vars

\* C18: history reports 'no commits' exactly when the next commit would
\* be a root commit, and otherwise starts at the commit the next commit
\* would record as its parent.
C18_HeadResolutionAgrees ==
    lastOp = "history" =>
        /\ (result = "NoCommits") <=> (get_current_commit_hash = None)
        /\ get_current_commit_hash # None =>
              /\ result = "table"
              /\ shown # <<>>
              /\ shown[1] \in {get_current_commit_hash,
                               <<"not found", get_current_commit_hash>>}

\* a sequence back to front
Reverse(seq) == [i \in 1..Len(seq) |-> seq[Len(seq) + 1 - i]]

\* the rows of the history table that show a stored commit
CommitRows == SelectSeq(shown, LAMBDA row : row \in DOMAIN objects)

\* C16: in a repository that started empty, the history shows exactly the
\* commits that succeeded, newest first, each once, ending at the root.
C16_HistoryNewestFirst ==
    lastOp = "history" =>
        /\ CommitRows = Reverse(log)
        /\ log # <<>> =>
              /\ result = "table"
              /\ shown = CommitRows
              /\ ParentOf(shown[Len(shown)]) = None

\* the history of two commits, shown newest first
C16_Witness ==
    /\ lastOp = "history" /\ Len(log) >= 2
    /\ shown = Reverse(log) /\ shown[1] # shown[2]

\* C19: in a repository that started empty, every digest in HEAD names a
\* stored object, and so does the parent of every stored commit that has
\* one.
C19_NoDanglingDigest ==
    /\ head_exists =>
          \A i \in 1..Len(HEAD) : IsHash(HEAD[i]) => HEAD[i] \in DOMAIN objects
    /\ \A d \in DOMAIN objects :
          ParentOf(d) # None => ParentOf(d) \in DOMAIN objects

\* a commit whose HEAD update failed, made on top of an earlier commit
C19_Witness ==
    /\ lastOp = "commit" /\ result = "ErrorUpdatingHead"
    /\ head_exists /\ Len(HEAD) = 2 /\ HEAD[2] \in DOMAIN objects
    /\ \E d \in DOMAIN objects : ParentOf(d) = HEAD[2]

\* C15: a history walk that has started ends, at a commit without parent
\* or at a reported missing object.
C15_WalkTerminates ==
    [](result = "walking" => <>(result = "table"))

====
